---- MODULE Spec2Model ----
(***************************************************************************)
(* Model of exanubes/ecs-fargate-ci-cd-pipeline.                           *)
(*                                                                         *)
(*   bin/infrastructure.ts  start(): resolves owner/account/region, then   *)
(*                          declares the five stacks; `cdk deploy --all`   *)
(*                          creates them one at a time in the order of     *)
(*                          their cross-stack references.                  *)
(*   lib/pipeline.stack.ts  the CodeBuild project (GitHub source with its  *)
(*                          own push webhook, the buildspec) and the       *)
(*                          CodePipeline Source -> Build -> Deploy.        *)
(*                                                                         *)
(* Strings the code cuts or concatenates are sequences of one-character    *)
(* strings, so that `cut -c 1-7` and the printf are computed, not assumed. *)
(***************************************************************************)
EXTENDS Naturals, Sequences, FiniteSets, TLC

VARIABLES
    pc,         \* position of start() in bin/infrastructure.ts
    res,        \* lifecycle state of every declared resource
    delivered,  \* number of webhook deliveries received so far
    pushes,     \* how many of them were pushes to the configured branch
    runs,       \* the pipeline's executions, in the order they were started
    hookBuilds, \* number of builds the project's own webhook has started
    outside,    \* image tags pushed to the registry by those builds
    lock,       \* the caller whose deploy to the service is in flight
    desired,    \* the image the service is asked to run
    attempts,   \* health polls of the deploy in flight
    calls,      \* number of deploy calls made so far
    externals,  \* number of deploys the operator has started
    last        \* the result of the last deploy call that ended

infraVars == <<pc, res>>

pipelineVars == <<delivered, pushes, runs, hookBuilds, outside>>

hookVars == <<hookBuilds, outside>>

rolloutVars == <<lock, desired, attempts, calls, externals, last>>

----------------------------------------------------------------------------
(* bin/infrastructure.ts                                                   *)

\* The stacks start() declares, in the order of lines 20-37.
Stacks == <<"EcrStack", "VpcStack", "ElasticContainerStack", "Route53Stack", "PipelineStack">>

StackSet == {Stacks[i] : i \in 1..Len(Stacks)}

\* Cross-stack references: a stack that receives another stack's resource as
\* a prop depends on it (vpc.vpc, ecr.repository, ecs.loadBalancer, ...).
\* Faulty variant: ElasticContainerStack declared without vpc.vpc.
StackDepsNoVpc(s) ==
    CASE s = "EcrStack" -> {}
      [] s = "VpcStack" -> {}
      [] s = "ElasticContainerStack" -> {"EcrStack"}
      [] s = "Route53Stack" -> {"ElasticContainerStack"}
      [] s = "PipelineStack" -> {"EcrStack", "ElasticContainerStack"}

StackDeps(s) ==
    CASE s = "EcrStack" -> {}
      [] s = "VpcStack" -> {}
      [] s = "ElasticContainerStack" -> {"VpcStack", "EcrStack"}
      [] s = "Route53Stack" -> {"ElasticContainerStack"}
      [] s = "PipelineStack" -> {"EcrStack", "ElasticContainerStack"}

\* The resources each stack exposes to start(): ecr.repository, vpc.vpc,
\* ecs.cluster / ecs.service, the DNS record, the pipeline.
StackResources(s) ==
    CASE s = "EcrStack" -> <<"repository">>
      [] s = "VpcStack" -> <<"vpc">>
      [] s = "ElasticContainerStack" -> <<"cluster", "service">>
      [] s = "Route53Stack" -> <<"dns">>
      [] s = "PipelineStack" -> <<"pipeline">>

ResourcesOf(s) == {StackResources(s)[i] : i \in 1..Len(StackResources(s))}

Resources == UNION {ResourcesOf(s) : s \in StackSet}

StackOf(x) == CHOOSE s \in StackSet : x \in ResourcesOf(s)

\* Dependencies inside ElasticContainerStack (lib/elastic-container.stack.ts):
\* the service runs on the cluster.
IntraDeps(x) == IF x = "service" THEN {"cluster"} ELSE {}

\* Every resource a resource depends on: those of its own stack it refers to
\* and all resources of the stacks its stack depends on.
ResourceDeps(x) ==
    IntraDeps(x) \cup UNION {ResourcesOf(d) : d \in StackDeps(StackOf(x))}

Terminal(st) == st \in {"Active", "Failed"}

StackComplete(s) == \A x \in ResourcesOf(s) : res[x] = "Active"

StackStarted(s) == \E x \in ResourcesOf(s) : res[x] \notin {"Undeclared", "Planned"}

\* await resolveCurrentUserOwnerName() / getAccountId() / getRegion():
\* each may reject, and start().catch logs and exits with status 1.
Await(from, to) ==
    /\ pc = from
    /\ \E ok \in BOOLEAN : pc' = IF ok THEN to ELSE "exit"
    /\ UNCHANGED <<res, pipelineVars, rolloutVars>>

ResolveOwner == Await("owner", "account")

GetAccountId == Await("account", "region")

GetRegion == Await("region", "synth")

\* Lines 18-38 run without an await: the app and its five stacks are declared.
Synth ==
    /\ pc = "synth"
    /\ pc' = "declared"
    /\ res' = [x \in Resources |-> "Planned"]
    /\ UNCHANGED <<pipelineVars, rolloutVars>>

\* The operation a deployment may start next: nothing else is in flight, no
\* operation has failed, every dependency is Active and its stack is the one
\* being deployed (or no stack is half-deployed).
CanStart(x) ==
    /\ pc = "declared"
    /\ res[x] = "Planned"
    /\ \A y \in Resources : res[y] \notin {"Creating", "Failed"}
    /\ \A d \in ResourceDeps(x) : res[d] = "Active"
    /\ \A s \in StackSet : StackStarted(s) /\ ~StackComplete(s) => s = StackOf(x)

\* `cdk deploy --all`: the Create operation on one resource starts.
StartCreate(x) ==
    /\ CanStart(x)
    /\ res' = [res EXCEPT ![x] = "Creating"]
    /\ UNCHANGED <<pc, pipelineVars, rolloutVars>>

\* The provider confirms the resource ready, or the creation fails.
FinishCreate(x) ==
    /\ res[x] = "Creating"
    /\ \E ok \in BOOLEAN : res' = [res EXCEPT ![x] = IF ok THEN "Active" ELSE "Failed"]
    /\ UNCHANGED <<pc, pipelineVars, rolloutVars>>

----------------------------------------------------------------------------
(* lib/pipeline.stack.ts: configuration                                    *)

\* githubConfig.branch
Branch == "master"

\* The webhook deliveries GitHub can send: event type, branch, head commit.
EventTypes == {"PUSH", "PULL_REQUEST_CREATED"}

Branches == {"master", "develop"}

Commit1 == <<"a", "b", "c", "d", "e", "f", "1", "2", "3", "4", "5", "6", "7">>

Commit2 == <<"9", "f", "8", "e", "7", "d", "6", "c", "5">>

\* The head commit of the k-th delivery: successive deliveries carry
\* different commits.
CommitAt(k) == IF k % 2 = 1 THEN Commit1 ELSE Commit2

EventsAt(k) == [type : EventTypes, branch : Branches, rev : {CommitAt(k)}]

\* props.repository.repositoryUri and props.container.containerName, passed to
\* the build as REPOSITORY_URI and CONTAINER_NAME.
RepositoryUri == <<"e", "c", "r", "/", "a", "p", "p">>

ContainerName == <<"a", "p", "p">>

Latest == <<"l", "a", "t", "e", "s", "t">>

\* FilterGroup.inEventOf(EventAction.PUSH).andBranchIs(githubConfig.branch):
\* the CodeBuild project's own webhook.
ProjectFilter(ev) == ev.type = "PUSH" /\ ev.branch = Branch

\* Faulty variant: the source action without its branch.
PipelineFilterAnyBranch(ev) == ev.type = "PUSH"

\* GitHubSourceAction { branch, trigger: WEBHOOK }: the pipeline's webhook
\* starts an execution on a push to refs/heads/<branch>.
PipelineFilter(ev) == ev.type = "PUSH" /\ ev.branch = Branch

----------------------------------------------------------------------------
(* getBuildSpec(): the shell commands of the three phases                  *)

NL == "\n"

Min(a, b) == IF a < b THEN a ELSE b

\* echo $X: the value followed by a newline.
Echo(s) == Append(s, NL)

\* cut -c lo-hi on one line of input: the characters lo..hi of the line, the
\* newline kept.
CutC(text, lo, hi) ==
    LET line == SubSeq(text, 1, Len(text) - 1)
    IN Append(SubSeq(line, lo, Min(hi, Len(line))), NL)

\* $( ... ): the output with its trailing newline removed.
CommandSubst(out) ==
    IF Len(out) > 0 /\ out[Len(out)] = NL THEN SubSeq(out, 1, Len(out) - 1) ELSE out

\* Faulty variant: cut -c 1-8.
CommitHash8(version) == CommandSubst(CutC(Echo(version), 1, 8))

\* COMMIT_HASH=$(echo $CODEBUILD_RESOLVED_SOURCE_VERSION | cut -c 1-7)
CommitHash(version) == CommandSubst(CutC(Echo(version), 1, 7))

\* ${COMMIT_HASH:=latest}: the value, or "latest" when it is unset or empty.
DefaultLatest(hash) == IF hash = <<>> THEN Latest ELSE hash

\* Faulty variant: the printf writes $REPOSITORY_URI:latest.
ImageDefinitionLatest(name, uri, tag) ==
    <<[name |-> name, imageUri |-> uri \o <<":">> \o Latest]>>

\* printf "[{\"name\": \"$CONTAINER_NAME\", \"imageUri\": \"$REPOSITORY_URI:$IMAGE_TAG\"}]"
ImageDefinition(name, uri, tag) == <<[name |-> name, imageUri |-> uri \o <<":">> \o tag]>>

\* The environment of one build: the resolved source version, the two shell
\* variables, the images of the local docker daemon, the tags this build has
\* pushed, docker_image_definition.json and whether the build is succeeding.
NewBuild(version) ==
    [version |-> version, COMMIT_HASH |-> <<>>, IMAGE_TAG |-> <<>>,
     images |-> {}, pushed |-> {}, file |-> <<>>, ok |-> TRUE]

PhaseLen(phase) == IF phase = "pre_build" THEN 9 ELSE 5

\* A command that fails whatever the environment does: docker tag and docker
\* push of an image the local daemon does not hold.
CannotRun(phase, i, b) ==
    \/ phase = "build" /\ i = 5 /\ Latest \notin b.images
    \/ phase = "post_build" /\ i = 3 /\ Latest \notin b.images
    \/ phase = "post_build" /\ i = 4 /\ b.IMAGE_TAG \notin b.images

\* The effect of command i of a phase (the echo commands change nothing).
Command(phase, i, b) ==
    CASE phase = "pre_build" /\ i = 6 -> [b EXCEPT !.COMMIT_HASH = CommitHash(b.version)]
      [] phase = "pre_build" /\ i = 8 ->
           [b EXCEPT !.COMMIT_HASH = DefaultLatest(b.COMMIT_HASH),
                     !.IMAGE_TAG = DefaultLatest(b.COMMIT_HASH)]
      [] phase = "build" /\ i = 3 -> [b EXCEPT !.images = @ \cup {Latest}]
      [] phase = "build" /\ i = 5 -> [b EXCEPT !.images = @ \cup {b.IMAGE_TAG}]
      [] phase = "post_build" /\ i = 3 -> [b EXCEPT !.pushed = @ \cup {Latest}]
      [] phase = "post_build" /\ i = 4 -> [b EXCEPT !.pushed = @ \cup {b.IMAGE_TAG}]
      [] phase = "post_build" /\ i = 5 ->
           [b EXCEPT !.file = ImageDefinition(ContainerName, RepositoryUri, b.IMAGE_TAG)]
      [] OTHER -> b

\* The commands of a phase run in order; the first failing command ends the
\* phase and marks the build as failing. fail is the command the environment
\* makes fail (0: none).
RECURSIVE RunFrom(_, _, _, _)
RunFrom(phase, i, b, fail) ==
    IF i > PhaseLen(phase) THEN b
    ELSE IF i = fail \/ CannotRun(phase, i, b) THEN [b EXCEPT !.ok = FALSE]
    ELSE RunFrom(phase, i + 1, Command(phase, i, b), fail)

RunPhase(phase, b, fail) == RunFrom(phase, 1, b, fail)

\* The commands the environment can make fail: the registry login, docker
\* build, the two docker push.
Failures(phase) ==
    CASE phase = "pre_build" -> {0, 5}
      [] phase = "build" -> {0, 3}
      [] phase = "post_build" -> {0, 3, 4}

\* A whole build as CodeBuild runs it: a failed pre_build ends the build, a
\* failed build phase still runs post_build.
RunBuild(version, f1, f2, f3) ==
    LET b1 == RunPhase("pre_build", NewBuild(version), f1)
    IN IF ~b1.ok THEN b1
       ELSE RunPhase("post_build", RunPhase("build", b1, f2), f3)

----------------------------------------------------------------------------
(* The service's deploy step (EcsDeployAction -> the rollout of the        *)
(* service): update the desired image, poll for health, one deploy at a    *)
(* time.                                                                   *)

\* The health polls one deploy may make.
MaxAttempts == 10

\* The operator's deploys outside the pipeline (caller 0).
MaxExternal == 2

\* Webhook deliveries followed when the operator deploys beside the pipeline.
MaxRolloutEvents == 1

Operator == 0

ManualImage == RepositoryUri \o <<":">> \o <<"m", "a", "n", "u", "a", "l">>

InitialImage == RepositoryUri \o <<":">> \o Latest

Result(c, image, outcome, healthy) ==
    [caller |-> c, image |-> image, outcome |-> outcome, healthy |-> healthy]

----------------------------------------------------------------------------
(* The pipeline: Source -> Build -> Deploy                                 *)

\* Webhook deliveries the model follows.
MaxEvents == 2

NewRun(ev) ==
    [event |-> ev, state |-> "Triggered", waiting |-> TRUE, fetched |-> FALSE,
     phase |-> "none", b |-> NewBuild(<<>>)]

RunIds == 1..Len(runs)

\* The states of a run in which it holds (or waits to leave) each stage.
StageStates(stage) ==
    CASE stage = "Source" -> {"Fetching"}
      [] stage = "Build" -> {"Building", "Pushing"}
      [] stage = "Deploy" -> {"Deploying"}

\* The runs executing in a stage: a stage holds one execution at a time.
Occupants(stage) ==
    {r \in RunIds : runs[r].state \in StageStates(stage) /\ ~runs[r].waiting}

\* Faulty variant: stages that admit any number of executions.
StageFreeAlways(stage) == TRUE

StageFree(stage) == Occupants(stage) = {}

\* An execution arriving at the entrance of a stage replaces the execution
\* already waiting there (execution mode SUPERSEDED, the default).
Supersede(rs, state) ==
    [i \in 1..Len(rs) |->
        IF rs[i].state = state /\ rs[i].waiting
        THEN [rs[i] EXCEPT !.state = "Superseded", !.waiting = FALSE]
        ELSE rs[i]]

\* The build the project's webhook starts runs the buildspec on the pushed
\* commit, outside the pipeline. It shares nothing with an execution of the
\* pipeline but the registry it pushes to, and is followed to its end here.
WebhookBuild(ev) ==
    /\ hookBuilds' = hookBuilds + 1
    /\ \E f1 \in Failures("pre_build"), f2 \in Failures("build"), f3 \in Failures("post_build") :
          outside' = outside \cup RunBuild(ev.rev, f1, f2, f3).pushed

\* A webhook delivery from GitHub. The pipeline's webhook starts an execution
\* and the project's webhook starts a build of its own, each on its filter.
Deliver(ev, max) ==
    /\ res["pipeline"] = "Active"
    /\ delivered < max
    /\ delivered' = delivered + 1
    /\ pushes' = IF ev.type = "PUSH" /\ ev.branch = "master" THEN pushes + 1 ELSE pushes
    /\ runs' = IF PipelineFilter(ev)
               THEN Append(Supersede(runs, "Triggered"), NewRun(ev))
               ELSE runs
    /\ IF ProjectFilter(ev) THEN WebhookBuild(ev) ELSE UNCHANGED hookVars
    /\ UNCHANGED <<infraVars, rolloutVars>>

Webhook(ev) == Deliver(ev, MaxEvents)

\* Stage Source: the execution enters when the stage is free.
EnterSource(r) ==
    /\ r \in RunIds
    /\ runs[r].state = "Triggered"
    /\ StageFree("Source")
    /\ runs' = [runs EXCEPT ![r] = [@ EXCEPT !.state = "Fetching", !.waiting = FALSE]]
    /\ UNCHANGED <<infraVars, delivered, pushes, hookVars, rolloutVars>>

\* The revision CodeBuild resolves for the Source artifact: the commit, or
\* nothing (CODEBUILD_RESOLVED_SOURCE_VERSION is not always available to a
\* build CodePipeline starts; the buildspec falls back to "latest").
Resolved(ev) == {ev.rev, <<>>}

\* GitHubSourceAction ends: on success the artifact Source waits for Build.
SourceDone(r) ==
    /\ r \in Occupants("Source")
    /\ \/ runs' = [runs EXCEPT ![r] = [@ EXCEPT !.state = "Failed"]]
       \/ \E v \in Resolved(runs[r].event) :
             runs' = [Supersede(runs, "Fetching") EXCEPT
                         ![r] = [@ EXCEPT !.waiting = TRUE, !.fetched = TRUE,
                                          !.b = NewBuild(v)]]
    /\ UNCHANGED <<infraVars, delivered, pushes, hookVars, rolloutVars>>

\* Faulty variant: the build starts at post_build.
EnterBuildSkipping(r) ==
    /\ r \in RunIds
    /\ runs[r].state = "Fetching" /\ runs[r].waiting
    /\ Occupants("Build") = {}
    /\ runs' = [runs EXCEPT ![r] = [@ EXCEPT !.state = "Pushing", !.waiting = FALSE,
                                           !.phase = "post_build"]]
    /\ UNCHANGED <<infraVars, delivered, pushes, hookVars, rolloutVars>>

\* Faulty variant: Build does not wait for the Source artifact.
EnterBuildEarly(r) ==
    /\ r \in RunIds
    /\ runs[r].state = "Fetching"
    /\ Occupants("Build") = {}
    /\ runs' = [runs EXCEPT ![r] = [@ EXCEPT !.state = "Building", !.waiting = FALSE,
                                           !.phase = "pre_build"]]
    /\ UNCHANGED <<infraVars, delivered, pushes, hookVars, rolloutVars>>

\* Stage Build: CodeBuildAction starts the project on the Source artifact.
EnterBuild(r) ==
    /\ r \in RunIds
    /\ runs[r].state = "Fetching" /\ runs[r].waiting
    /\ StageFree("Build")
    /\ runs' = [runs EXCEPT ![r] = [@ EXCEPT !.state = "Building", !.waiting = FALSE,
                                           !.phase = "pre_build"]]
    /\ UNCHANGED <<infraVars, delivered, pushes, hookVars, rolloutVars>>

\* Phase pre_build: a failure ends the build.
PreBuild(r) ==
    /\ r \in Occupants("Build")
    /\ runs[r].phase = "pre_build"
    /\ \E f \in Failures("pre_build") :
          LET b == RunPhase("pre_build", runs[r].b, f)
          IN runs' = [runs EXCEPT ![r] =
                        IF b.ok THEN [@ EXCEPT !.b = b, !.phase = "build"]
                        ELSE [@ EXCEPT !.b = b, !.phase = "none", !.state = "Failed"]]
    /\ UNCHANGED <<infraVars, delivered, pushes, hookVars, rolloutVars>>

\* Phase build: docker build and docker tag; post_build follows either way.
BuildPhase(r) ==
    /\ r \in Occupants("Build")
    /\ runs[r].phase = "build"
    /\ \E f \in Failures("build") :
          runs' = [runs EXCEPT ![r] = [@ EXCEPT !.b = RunPhase("build", runs[r].b, f),
                                               !.phase = "post_build",
                                               !.state = "Pushing"]]
    /\ UNCHANGED <<infraVars, delivered, pushes, hookVars, rolloutVars>>

\* Phase post_build and the upload of the artifact BuildOutput: a succeeded
\* build waits for Deploy, a failed one fails the execution.
PostBuild(r) ==
    /\ r \in Occupants("Build")
    /\ runs[r].phase = "post_build"
    /\ \E f \in Failures("post_build") :
          LET b == RunPhase("post_build", runs[r].b, f)
          IN runs' = IF b.ok
                     THEN [Supersede(runs, "Pushing") EXCEPT
                              ![r] = [@ EXCEPT !.b = b, !.phase = "none", !.waiting = TRUE]]
                     ELSE [runs EXCEPT
                              ![r] = [@ EXCEPT !.b = b, !.phase = "none", !.state = "Failed"]]
    /\ UNCHANGED <<infraVars, delivered, pushes, hookVars, rolloutVars>>

\* Stage Deploy: the execution enters when the stage is free.
EnterDeploy(r) ==
    /\ r \in RunIds
    /\ runs[r].state = "Pushing" /\ runs[r].waiting
    /\ StageFree("Deploy")
    /\ runs' = [runs EXCEPT ![r] = [@ EXCEPT !.state = "Deploying", !.waiting = FALSE]]
    /\ UNCHANGED <<infraVars, delivered, pushes, hookVars, rolloutVars>>

\* The image the deploy step reads from docker_image_definition.json.
ImageOf(file) == file[1].imageUri

\* The end of a deploy call as its caller sees it: a run succeeds or fails.
Ended(rs, c, outcome) ==
    IF c = Operator THEN rs
    ELSE [rs EXCEPT ![c] = [@ EXCEPT !.state = IF outcome = "Succeeded" THEN "Succeeded"
                                                 ELSE "Failed"]]

\* Faulty variant: a rejected call still overwrites the desired image.
DeployOverwrite(c, image) ==
    /\ calls' = calls + 1
    /\ IF lock # {}
       THEN /\ last' = Result(c, image, "DeployInProgress", FALSE)
            /\ runs' = Ended(runs, c, "DeployInProgress")
            /\ desired' = image
            /\ UNCHANGED <<lock, attempts>>
       ELSE /\ lock' = {c}
            /\ desired' = image
            /\ attempts' = 0
            /\ UNCHANGED <<last, runs>>

\* deploy(service, imageDefinition): rejected while another deploy is in
\* flight, else the desired image is updated and polling starts.
Deploy(c, image) ==
    /\ calls' = calls + 1
    /\ IF lock # {}
       THEN /\ last' = Result(c, image, "DeployInProgress", FALSE)
            /\ runs' = Ended(runs, c, "DeployInProgress")
            /\ UNCHANGED <<lock, desired, attempts>>
       ELSE /\ lock' = {c}
            /\ desired' = image
            /\ attempts' = 0
            /\ UNCHANGED <<last, runs>>

\* EcsDeployAction: the run in Deploy calls deploy with its image definition.
DeployCall(r) ==
    /\ r \in Occupants("Deploy")
    /\ r \notin lock
    /\ Deploy(r, ImageOf(runs[r].b.file))
    /\ UNCHANGED <<infraVars, delivered, pushes, hookVars, externals>>

\* A deploy by the operator, outside the pipeline.
ExternalDeploy ==
    /\ res["service"] = "Active"
    /\ externals < MaxExternal
    /\ externals' = externals + 1
    /\ Deploy(Operator, ManualImage)
    /\ UNCHANGED <<infraVars, delivered, pushes, hookVars>>

\* Faulty variant: a timed-out deploy restores the initial image.
PollRollingBack ==
    /\ lock # {}
    /\ attempts < MaxAttempts
    /\ \E c \in lock, healthy \in BOOLEAN :
          IF healthy \/ attempts + 1 = MaxAttempts
          THEN /\ lock' = {}
               /\ attempts' = 0
               /\ desired' = IF healthy THEN desired ELSE InitialImage
               /\ last' = Result(c, desired, IF healthy THEN "Succeeded" ELSE "RolloutTimeout", healthy)
               /\ runs' = Ended(runs, c, IF healthy THEN "Succeeded" ELSE "RolloutTimeout")
          ELSE /\ attempts' = attempts + 1
               /\ UNCHANGED <<lock, last, runs, desired>>
    /\ UNCHANGED <<infraVars, delivered, pushes, hookVars, calls, externals>>

\* One health poll of the deploy in flight: healthy ends it with success, the
\* last unhealthy poll of the budget with RolloutTimeout. The desired image
\* stays as the deploy set it.
Poll ==
    /\ lock # {}
    /\ attempts < MaxAttempts
    /\ \E c \in lock, healthy \in BOOLEAN :
          IF healthy \/ attempts + 1 = MaxAttempts
          THEN /\ lock' = {}
               /\ attempts' = 0
               /\ last' = Result(c, desired, IF healthy THEN "Succeeded" ELSE "RolloutTimeout", healthy)
               /\ runs' = Ended(runs, c, IF healthy THEN "Succeeded" ELSE "RolloutTimeout")
          ELSE /\ attempts' = attempts + 1
               /\ UNCHANGED <<lock, last, runs>>
    /\ UNCHANGED <<infraVars, delivered, pushes, hookVars, desired, calls, externals>>

\* An external timeout or abort cancels the deploy in flight and releases
\* the lock.
Abort ==
    /\ lock # {}
    /\ \E c \in lock :
          /\ lock' = {}
          /\ attempts' = 0
          /\ last' = Result(c, desired, "Cancelled", FALSE)
          /\ runs' = Ended(runs, c, "Cancelled")
    /\ UNCHANGED <<infraVars, delivered, pushes, hookVars, desired, calls, externals>>

InfraInit ==
    /\ pc = "owner"
    /\ res = [x \in Resources |-> "Undeclared"]

PipelineInit ==
    /\ delivered = 0
    /\ pushes = 0
    /\ runs = <<>>
    /\ hookBuilds = 0
    /\ outside = {}

RolloutInit ==
    /\ lock = {}
    /\ desired = InitialImage
    /\ attempts = 0
    /\ calls = 0
    /\ externals = 0
    /\ last = Result(Operator, <<>>, "None", FALSE)

Init == InfraInit /\ PipelineInit /\ RolloutInit

Next ==
    \/ ResolveOwner
    \/ GetAccountId
    \/ GetRegion
    \/ Synth
    \/ \E x \in Resources : StartCreate(x)
    \/ \E x \in Resources : FinishCreate(x)
    \/ \E ev \in EventsAt(delivered + 1) : Webhook(ev)
    \/ \E r \in 1..MaxEvents : EnterSource(r)
    \/ \E r \in 1..MaxEvents : SourceDone(r)
    \/ \E r \in 1..MaxEvents : EnterBuild(r)
    \/ \E r \in 1..MaxEvents : PreBuild(r)
    \/ \E r \in 1..MaxEvents : BuildPhase(r)
    \/ \E r \in 1..MaxEvents : PostBuild(r)
    \/ \E r \in 1..MaxEvents : EnterDeploy(r)
    \/ \E r \in 1..MaxEvents : DeployCall(r)
    \/ Poll
    \/ Abort

vars == <<pc, res, delivered, pushes, runs, hookBuilds, outside, lock, desired, attempts, calls, externals, last>>

Spec == Init /\ [][Next]_vars

----------------------------------------------------------------------------
(* The deploy step under concurrent callers: the deployed system, the      *)
(* pipeline and an operator who deploys to the same service.               *)

RolloutWebhook(ev) == Deliver(ev, MaxRolloutEvents)

InitRollout ==
    /\ pc = "declared"
    /\ res = [x \in Resources |-> "Active"]
    /\ PipelineInit
    /\ RolloutInit

NextRollout ==
    \/ \E ev \in EventsAt(delivered + 1) : RolloutWebhook(ev)
    \/ \E r \in 1..MaxRolloutEvents : EnterSource(r)
    \/ \E r \in 1..MaxRolloutEvents : SourceDone(r)
    \/ \E r \in 1..MaxRolloutEvents : EnterBuild(r)
    \/ \E r \in 1..MaxRolloutEvents : PreBuild(r)
    \/ \E r \in 1..MaxRolloutEvents : BuildPhase(r)
    \/ \E r \in 1..MaxRolloutEvents : PostBuild(r)
    \/ \E r \in 1..MaxRolloutEvents : EnterDeploy(r)
    \/ \E r \in 1..MaxRolloutEvents : DeployCall(r)
    \/ ExternalDeploy
    \/ Poll
    \/ Abort

SpecRollout == InitRollout /\ [][NextRollout]_vars

----------------------------------------------------------------------------
(* The image tag of a build, for every revision identifier: a run whose    *)
(* Source stage has ended with some resolved version goes through Build.   *)

MaxRevLen == 8

Alphabet == {"a", "7"}

Revisions == UNION {[1..n -> Alphabet] : n \in 0..MaxRevLen} \cup {Commit1}

InitTag ==
    /\ pc = "declared"
    /\ res = [x \in Resources |-> "Active"]
    /\ delivered = 1
    /\ pushes = 1
    /\ hookBuilds = 1
    /\ outside = {}
    /\ \E v \in Revisions :
          runs = <<[NewRun([type |-> "PUSH", branch |-> Branch, rev |-> v]) EXCEPT
                      !.state = "Fetching", !.fetched = TRUE, !.b = NewBuild(v)]>>
    /\ RolloutInit

NextTag ==
    \/ EnterBuild(1)
    \/ PreBuild(1)
    \/ BuildPhase(1)
    \/ PostBuild(1)

SpecTag == InitTag /\ [][NextTag]_vars

----------------------------------------------------------------------------
(* Properties                                                              *)

Chain == <<"Triggered", "Fetching", "Building", "Pushing", "Deploying", "Succeeded">>

NonTerminal == {Chain[i] : i \in 1..5}

Successor(a, b) == \E i \in 1..5 : Chain[i] = a /\ Chain[i + 1] = b

\* The changes of state a run may make in one step, given the ways a run may
\* end before Succeeded.
RunSteps(endings) ==
    \A r \in 1..Len(runs') :
        IF r > Len(runs) THEN runs'[r].state = "Triggered"
        ELSE IF runs[r].state \notin NonTerminal THEN runs'[r] = runs[r]
        ELSE \/ runs'[r].state = runs[r].state
             \/ Successor(runs[r].state, runs'[r].state)
             \/ <<runs[r].state, runs'[r].state>> \in endings

FailedFromAny == {<<s, "Failed">> : s \in NonTerminal}

SupersededWaiting == {<<s, "Superseded">> : s \in {"Triggered", "Fetching", "Pushing"}}

\* C1 as stated: every run goes through Triggered, Fetching, Building,
\* Pushing, Deploying, Succeeded in this order, one state at a time, never
\* back, and may only leave the chain for Failed; a run that is Succeeded or
\* Failed changes no more.
C1_ChainOrFailed == [][RunSteps(FailedFromAny)]_vars

\* C1 amended: the same, and a run that waits at the entrance of a stage
\* (Triggered, or Fetching / Pushing with its stage ended) may also end
\* Superseded when a newer run arrives there; a run that is Succeeded, Failed
\* or Superseded changes no more.
C1_ChainFailedOrSuperseded ==
    [][/\ RunSteps(FailedFromAny \cup SupersededWaiting)
       /\ \A r \in 1..Len(runs) :
             runs[r].state # "Superseded" /\ runs'[r].state = "Superseded"
                => runs[r].waiting]_vars

C1_Witness ==
    \E r1, r2 \in RunIds :
        /\ runs[r1].state = "Superseded"
        /\ runs[r2].state = "Succeeded"

\* The tag the revision identifier v stands for: its first 7 characters, or
\* "latest" when it is empty.
ExpectedTag(v) ==
    IF Len(v) = 0 THEN <<"l", "a", "t", "e", "s", "t">>
    ELSE [i \in 1..(IF Len(v) < 7 THEN Len(v) ELSE 7) |-> v[i]]

\* C2: once pre_build has run, IMAGE_TAG is the first 7 characters of the
\* resolved revision identifier, and "latest" when that identifier is empty;
\* "abcdef1234567" gives "abcdef1".
C2_ImageTag ==
    \A r \in RunIds :
        runs[r].state \in {"Building", "Pushing"} /\ runs[r].phase # "pre_build"
            => /\ runs[r].b.IMAGE_TAG = ExpectedTag(runs[r].b.version)
               /\ runs[r].b.version = Commit1
                     => runs[r].b.IMAGE_TAG = <<"a", "b", "c", "d", "e", "f", "1">>

C2_Witness ==
    \E r \in RunIds :
        /\ runs[r].state = "Pushing"
        /\ Len(runs[r].b.version) = 8
        /\ Len(runs[r].b.IMAGE_TAG) = 7

\* C3: a run that has written docker_image_definition.json wrote
\* [{name: CONTAINER_NAME, imageUri: REPOSITORY_URI:<tag>}] with <tag> the
\* tag of its revision, after pushing the image under latest and under that
\* tag; the image a run's deploy asks the service to run carries a tag this
\* run has pushed.
C3_ImageDefinition ==
    \A r \in RunIds :
        LET b == runs[r].b
            tag == ExpectedTag(b.version)
            uri == RepositoryUri \o <<":">> \o tag
        IN /\ b.file # <<>> =>
                /\ b.file = <<[name |-> ContainerName, imageUri |-> uri]>>
                /\ {Latest, tag} \subseteq b.pushed
           /\ runs[r].state \in {"Deploying", "Succeeded"} => b.file # <<>>
           /\ r \in lock => desired = uri /\ tag \in b.pushed

C3_Witness ==
    \E r \in RunIds :
        /\ r \in lock
        /\ runs[r].b.file # <<>>
        /\ runs[r].b.IMAGE_TAG # Latest

\* C4: every run was created by a push to the configured branch, and there
\* are no more runs and no more builds of the project than such pushes
\* delivered: no other delivery creates a run or starts a build.
C4_OnlyBranchPushes ==
    /\ \A r \in RunIds : runs[r].event.type = "PUSH" /\ runs[r].event.branch = "master"
    /\ Len(runs) <= pushes
    /\ hookBuilds <= pushes
    /\ Cardinality({r \in RunIds : runs[r].phase # "none"}) <= pushes

C4_Witness ==
    /\ delivered > pushes
    /\ \E r \in RunIds : runs[r].phase = "build"

\* A run that has started and has not ended (a run still Triggered is queued).
Active(r) == runs[r].state \in {"Fetching", "Building", "Pushing", "Deploying"}

\* C5 as stated: at most one run is Active, a later run starting only when
\* the Active run has reached Succeeded or Failed.
C5_OneActiveRun == Cardinality({r \in RunIds : Active(r)}) <= 1

WaitingAt(state) == {r \in RunIds : runs[r].state = state /\ runs[r].waiting}

\* C5 amended: at most one run executes in each of the stages Source, Build
\* and Deploy, and at most one run waits at the entrance of each stage.
C5_OneRunPerStage ==
    /\ \A stage \in {"Source", "Build", "Deploy"} :
          Cardinality({r \in RunIds : runs[r].state \in StageStates(stage)
                                        /\ ~runs[r].waiting}) <= 1
    /\ \A state \in {"Triggered", "Fetching", "Pushing"} : Cardinality(WaitingAt(state)) <= 1

C5_Witness ==
    \E r1, r2 \in RunIds :
        /\ runs[r1].state = "Pushing" /\ ~runs[r1].waiting
        /\ runs[r2].state = "Fetching" /\ ~runs[r2].waiting

Started(x) == res[x] \in {"Creating", "Active", "Failed"}

Requested(c) == IF c = Operator THEN ManualImage ELSE ImageOf(runs[c].b.file)

\* C7: a deploy first sets the desired image and then polls at most 10
\* times; it ends with RolloutTimeout only at the 10th poll and only if that
\* poll was not healthy, it ends with success exactly when a poll is healthy,
\* and the desired image changes only when a deploy is accepted, so it is
\* never set back.
C7_Rollout ==
    /\ [](attempts < MaxAttempts)
    /\ [][lock = {} /\ lock' # {}
            => attempts' = 0 /\ \A c \in lock' : desired' = Requested(c)]_vars
    /\ [][desired' # desired => lock = {} /\ lock' # {}]_vars
    /\ [][lock # {} /\ lock' = {}
            => /\ last'.image = desired'
               /\ last'.outcome \in {"Succeeded", "RolloutTimeout", "Cancelled"}
               /\ last'.outcome = "RolloutTimeout"
                     => attempts + 1 = 10 /\ ~last'.healthy
               /\ last'.outcome = "Succeeded" <=> last'.healthy]_vars

C7_Witness ==
    /\ last.outcome = "RolloutTimeout"
    /\ lock = {}
    /\ desired = last.image
    /\ desired # InitialImage

\* C8: a deploy call made while a deploy is in flight ends with
\* DeployInProgress and leaves the lock, the desired image, the polls made
\* and the caller in flight as they were; when the deploy in flight ends the
\* lock is free, and a call made while the lock is free is accepted.
C8_Serialized ==
    /\ [][calls' = calls + 1 /\ lock # {}
            => /\ last'.outcome = "DeployInProgress"
               /\ lock' = lock /\ desired' = desired /\ attempts' = attempts
               /\ \A c \in lock : c # Operator => runs'[c] = runs[c]]_vars
    /\ [][calls' = calls + 1 /\ lock = {} => lock' # {} /\ last' = last]_vars
    /\ [][calls' = calls /\ last' # last => lock # {} /\ lock' = {}]_vars

C8_Witness ==
    /\ last.outcome = "DeployInProgress"
    /\ last.caller # Operator
    /\ lock = {Operator}
    /\ attempts > 0

\* C9 as stated: a run in or past Building has a resolved revision
\* identifier, and a run without one has pushed no image.
C9_ResolvedBeforeBuilding ==
    \A r \in RunIds :
        runs[r].phase # "none" \/ runs[r].b.pushed # {} => runs[r].b.version # <<>>

\* C9 amended: a run in or past Building, and a run that has built or pushed
\* an image, has the artifact of a Source stage that ended with success.
C9_FetchedBeforeBuilding ==
    \A r \in RunIds :
        \/ runs[r].state \in {"Building", "Pushing", "Deploying", "Succeeded"}
        \/ runs[r].phase # "none"
        \/ runs[r].b.images # {}
        \/ runs[r].b.pushed # {}
        => runs[r].fetched

C9_Witness ==
    \E r \in RunIds :
        /\ runs[r].fetched
        /\ runs[r].b.version = <<>>
        /\ Latest \in runs[r].b.pushed

\* C10: the project builds only as the Build stage of a run: no build is
\* started, and no image is pushed, outside a run.
C10_BuildsOnlyInRuns == hookBuilds = 0 /\ outside = {}
====
